---------------------------- MODULE Spec2Model ----------------------------
(***************************************************************************)
(* Face-Attendance-System: the camera engine (src/camera_engine.py) and    *)
(* the Flask routes that drive it (src/app.py), as a state machine.        *)
(*                                                                         *)
(* Text is a sequence of one-character strings, so that str.strip() is a   *)
(* real conversion.  An embedding is a tuple of integers; the empty tuple  *)
(* is the empty (or missing) embedding.  A cosine similarity is the exact  *)
(* rational <<numerator, denominator>> with a positive denominator.        *)
(* The time stamps stored with a document or a recognised student          *)
(* (registered_at, created_at, timestamp, marked_at, lecture_date) are     *)
(* written and never read by the operations modelled, and are left out.    *)
(***************************************************************************)
EXTENDS Integers, Sequences, FiniteSets, Bags, TLC

(* ------------------------------ bounds -------------------------------- *)

\* number of clock ticks the model lets pass
MaxTicks == 2
\* number of attendance documents the model lets the database hold
MaxAttendance == 3
\* number of multipart parts the model lets one video stream emit
MaxParts == 2

(* ------------------------- program constants -------------------------- *)

\* camera_engine.py:51  self.cache_lifetime = 60
cache_lifetime == 60
\* camera_engine.py:54  self.frame_skip = 2
frame_skip == 2
\* camera_engine.py:230  best_similarity = 0.6
RecognitionThreshold == <<3, 5>>
\* app.py:19  ADMIN_PASSWORD = "admin123"
ADMIN_PASSWORD == <<"a", "d", "m", "i", "n", "1", "2", "3">>

(* ------------------------------- text --------------------------------- *)

RECURSIVE lstrip(_)
lstrip(s) ==
    IF s # <<>> /\ Head(s) = " " THEN lstrip(Tail(s)) ELSE s

RECURSIVE rstrip(_)
rstrip(s) ==
    IF s # <<>> /\ s[Len(s)] = " " THEN rstrip(SubSeq(s, 1, Len(s) - 1)) ELSE s

\* str.strip(): leading and trailing whitespace removed
strip(s) == rstrip(lstrip(s))

(* ------------------------ cosine similarity --------------------------- *)

\* np.dot(vec1, vec2)
dot(v1, v2) == v1[1] * v2[1] + v1[2] * v2[2]

\* np.linalg.norm(vec): the model's embeddings have integer norms
norm(v) ==
    LET sq == dot(v, v)
        abs(x) == IF x < 0 THEN -x ELSE x
    IN  CHOOSE r \in 0..(abs(v[1]) + abs(v[2])) : r * r = sq

\* a > b for rationals <<n, d>> with d > 0
RatGT(a, b) == a[1] * b[2] > b[1] * a[2]

\* a = b for rationals <<n, d>> with d > 0
RatEQ(a, b) == a[1] * b[2] = b[1] * a[2]

\* the dot product left undivided
cosine_similarity_unnormalized(vec1, vec2) ==
    IF norm(vec1) = 0 \/ norm(vec2) = 0 THEN <<0, 1>>
    ELSE <<dot(vec1, vec2), 1>>

cosine_similarity(vec1, vec2) ==
    LET norm1 == norm(vec1)
        norm2 == norm(vec2)
    IN  IF norm1 = 0 \/ norm2 = 0
        THEN <<0, 1>>
        ELSE <<dot(vec1, vec2), norm1 * norm2>>


(* ------------------------- document database -------------------------- *)

\* mutant of doc_set: the document is added beside the one of the same id
doc_set_beside(coll, data) == coll \cup {data}

\* A collection is a set of documents; a document carries its id.
\* collection.document(id).set(data): the document of that id is replaced
doc_set(coll, data) == {d \in coll : d.id # data.id} \cup {data}

\* collection.document(id).delete()
doc_delete(coll, id) == {d \in coll : d.id # id}

\* collection.document(id).get().exists
doc_exists(coll, id) == \E d \in coll : d.id = id

\* collection.document(id).get().to_dict()
doc_get(coll, id) == CHOOSE d \in coll : d.id = id

\* the order of the characters in document ids
CharOrder == <<" ", "1", "2", "3", "a", "b", "c">>

CharRank(c) == CHOOSE i \in 1..Len(CharOrder) : CharOrder[i] = c

RECURSIVE TextLess(_, _)
TextLess(a, b) ==
    IF b = <<>> THEN FALSE
    ELSE IF a = <<>> THEN TRUE
    ELSE IF Head(a) # Head(b) THEN CharRank(Head(a)) < CharRank(Head(b))
    ELSE TextLess(Tail(a), Tail(b))

\* collection.stream(): the documents in the order of their ids
RECURSIVE stream(_)
stream(coll) ==
    IF coll = {} THEN <<>>
    ELSE LET first == CHOOSE d \in coll : \A o \in coll : ~TextLess(o.id, d.id)
         IN  <<first>> \o stream(coll \ {first})

(* ----------------------------- the engine ----------------------------- *)

\* the outcomes of one database call
DbOutcomes == {"ok", "error"}

\* lines 89-97: the cache entries of the streamed documents that have a
\* non-empty embedding
RECURSIVE cache_entries(_)
cache_entries(docs) ==
    IF docs = <<>> THEN <<>>
    ELSE LET data == Head(docs)
         IN  (IF data.embedding # <<>>
              THEN << [id |-> data.id, name |-> data.name,
                       student_id |-> data.student_id,
                       embedding |-> data.embedding] >>
              ELSE <<>>) \o cache_entries(Tail(docs))

\* where a refresh of the cache may raise: nowhere ("none"), in the stream()
\* call of line 86 ("stream"), or in the loop of line 89 after `docs`
\* documents were read ("loop")
FailPoints(db) ==
    {[at |-> "none", docs |-> 0], [at |-> "stream", docs |-> 0]}
        \cup [at : {"loop"}, docs : 0..Cardinality(db)]

NoFail == [at |-> "none", docs |-> 0]

\* the failure points of a refresh asked for at time t: a call that returns
\* at line 82 makes no database call
RefreshFailPoints(lcu, t, db) ==
    IF t - lcu < cache_lifetime THEN {NoFail} ELSE FailPoints(db)

\* mutant of update_students_cache: the check of line 81 is missing
update_students_cache_always(cache, lcu, t, db, fail) ==
    IF fail.at = "none"
    THEN [students_cache |-> cache_entries(stream(db)), last_cache_update |-> t]
    ELSE IF fail.at = "stream"
    THEN [students_cache |-> cache, last_cache_update |-> lcu]
    ELSE [students_cache |-> cache_entries(SubSeq(stream(db), 1, fail.docs)),
          last_cache_update |-> lcu]

\* _update_students_cache at time t: the new students_cache and
\* last_cache_update
update_students_cache(cache, lcu, t, db, fail) ==
    IF t - lcu < cache_lifetime
    THEN [students_cache |-> cache, last_cache_update |-> lcu]
    ELSE IF fail.at = "none"
    THEN [students_cache |-> cache_entries(stream(db)), last_cache_update |-> t]
    ELSE IF fail.at = "stream"
    THEN [students_cache |-> cache, last_cache_update |-> lcu]
    ELSE [students_cache |-> cache_entries(SubSeq(stream(db), 1, fail.docs)),
          last_cache_update |-> lcu]

\* mutant of best_match: the loop stops at the first student above the
\* threshold
RECURSIVE best_match_first(_, _, _, _, _)
best_match_first(cache, i, current_embedding, best_similarity, best) ==
    IF i > Len(cache) THEN best
    ELSE IF RatGT(cosine_similarity(current_embedding, cache[i].embedding),
                  best_similarity)
    THEN i
    ELSE best_match_first(cache, i + 1, current_embedding, best_similarity, best)

\* lines 229-240: the index in the cache of the best match so far (0: None)
RECURSIVE best_match(_, _, _, _, _)
best_match(cache, i, current_embedding, best_similarity, best) ==
    IF i > Len(cache) THEN best
    ELSE LET similarity == cosine_similarity(current_embedding, cache[i].embedding)
         IN  IF RatGT(similarity, best_similarity)
             THEN best_match(cache, i + 1, current_embedding, similarity, i)
             ELSE best_match(cache, i + 1, current_embedding, best_similarity, best)

\* what DeepFace.represent gives for the face region: an embedding, no
\* embedding object ("empty": also an empty face region), or an exception
Faces(embs) ==
    [kind : {"embedding"}, embedding : embs]
        \cup {[kind |-> "empty", embedding |-> <<>>],
               [kind |-> "error", embedding |-> <<>>]}

Unknown == [name |-> "Unknown", status |-> "unknown"]

\* _recognize_face on a cache already refreshed (line 198): the returned
\* (name, status) and the new recognized_students
recognize_face(cache, marked, recognized, face) ==
    IF cache = <<>> \/ face.kind # "embedding"
    THEN [ret |-> Unknown, recognized_students |-> recognized]
    ELSE LET best == best_match(cache, 1, face.embedding, RecognitionThreshold, 0)
         IN  IF best = 0
             THEN [ret |-> Unknown, recognized_students |-> recognized]
             ELSE LET student_id == cache[best].student_id
                      name == cache[best].name
                      entry == [name |-> name]
                  IN  [ret |-> [name |-> name,
                                status |-> IF student_id \in marked
                                           THEN "already_marked" ELSE "new"],
                       recognized_students |->
                           [k \in DOMAIN recognized \cup {student_id} |->
                               IF k = student_id THEN entry ELSE recognized[k]]]

\* register_student: the return value, the students collection and
\* last_cache_update
register_student(db, lcu, name, student_id, embedding, outcome) ==
    IF outcome = "ok"
    THEN [ret |-> TRUE,
          students |-> doc_set(db, [id |-> student_id, name |-> name,
                                    student_id |-> student_id,
                                    embedding |-> embedding]),
          last_cache_update |-> 0]
    ELSE [ret |-> FALSE, students |-> db, last_cache_update |-> lcu]

\* mutant of mark_attendance: the check of line 362 is missing
mark_attendance_again(marked, db, att, student_id, session_info, get_outcome, add_outcome) ==
    LET same == [ret |-> FALSE, attendance_marked |-> marked, attendance |-> att]
    IN  IF get_outcome # "ok" THEN same
        ELSE IF ~doc_exists(db, student_id) THEN same
        ELSE IF add_outcome # "ok" THEN same
        ELSE [ret |-> TRUE,
              attendance_marked |-> marked \cup {student_id},
              attendance |-> att (+) SetToBag({
                  [student_id |-> student_id,
                   name |-> doc_get(db, student_id).name,
                   doctor_name |-> session_info.doctor_name,
                   course_name |-> session_info.course_name,
                   course_code |-> session_info.course_code]})]

\* mutant of mark_attendance: the student is added to attendance_marked
\* before the record is written
mark_attendance_marks_first(marked, db, att, student_id, session_info, get_outcome, add_outcome) ==
    LET same == [ret |-> FALSE, attendance_marked |-> marked, attendance |-> att]
    IN  IF student_id \in marked THEN same
        ELSE IF get_outcome # "ok" THEN same
        ELSE IF ~doc_exists(db, student_id) THEN same
        ELSE IF add_outcome # "ok"
        THEN [ret |-> FALSE, attendance_marked |-> marked \cup {student_id},
              attendance |-> att]
        ELSE [ret |-> TRUE,
              attendance_marked |-> marked \cup {student_id},
              attendance |-> att (+) SetToBag({
                  [student_id |-> student_id,
                   name |-> doc_get(db, student_id).name,
                   doctor_name |-> session_info.doctor_name,
                   course_name |-> session_info.course_name,
                   course_code |-> session_info.course_code]})]

\* mark_attendance: the return value, attendance_marked and the attendance
\* collection; get_outcome is that of line 368, add_outcome that of line 388
mark_attendance(marked, db, att, student_id, session_info, get_outcome, add_outcome) ==
    LET same == [ret |-> FALSE, attendance_marked |-> marked, attendance |-> att]
    IN  IF student_id \in marked THEN same
        ELSE IF get_outcome # "ok" THEN same
        ELSE IF ~doc_exists(db, student_id) THEN same
        ELSE IF add_outcome # "ok" THEN same
        ELSE [ret |-> TRUE,
              attendance_marked |-> marked \cup {student_id},
              attendance |-> att (+) SetToBag({
                  [student_id |-> student_id,
                   name |-> doc_get(db, student_id).name,
                   doctor_name |-> session_info.doctor_name,
                   course_name |-> session_info.course_name,
                   course_code |-> session_info.course_code]})]

(* ------------------------------- state -------------------------------- *)

VARIABLES
    \* app.py:22  the camera_engine global: "None" or "engine"
    camera_engine,
    \* CameraEngine fields (camera_engine.py:39-55)
    camera, is_running, lock, current_frame, mode,
    recognized_students, attendance_marked, students_cache,
    last_cache_update, frame_count,
    \* the Firestore collections
    students, courses, attendance,
    \* the Flask session of the client
    session,
    \* time.time()
    now,
    \* the request threads: where each is in its handler
    pc,
    \* the multipart parts the video_feed generator has emitted
    parts,
    \* the last operation and what it answered
    resp,
    \* attendance documents written per student since the last reset_session
    session_records

engine_vars ==
    <<camera, is_running, lock, current_frame, mode, recognized_students,
      attendance_marked, students_cache, last_cache_update, frame_count>>

db_vars == <<students, courses, attendance>>

vars ==
    <<camera_engine, engine_vars, db_vars, session, now, pc, parts, resp,
      session_records>>

(* ------------------------------ session ------------------------------- *)

\* session[key] = value
session_set(s, key, value) ==
    [k \in DOMAIN s \cup {key} |-> IF k = key THEN value ELSE s[k]]

\* session.pop(key, None)
session_pop(s, key) == [k \in DOMAIN s \ {key} |-> s[k]]

\* session.get('is_admin') is truthy
is_admin(s) == "is_admin" \in DOMAIN s /\ s["is_admin"] = TRUE

\* 'course_code' in session
has_course(s) == "course_code" \in DOMAIN s

EmptyDict == [k \in {} |-> TRUE]

(* ----------------------------- responses ------------------------------ *)

\* what a route answered: its status, whether the body under its decorator
\* ran, and whether it used the database
Response(op, status, body, db) ==
    [op |-> op, status |-> status, body |-> body, db |-> db]

\* redirect(url_for(location))
Redirect(op, location) ==
    [op |-> op, status |-> 302, body |-> FALSE, db |-> FALSE,
     location |-> location]

\* the redirect that ends /end_session: the request method, and whether a
\* database call made while finalizing the attendance raised
Finished(op, method, raised, location) ==
    [op |-> op, status |-> 302, body |-> TRUE, db |-> method = "POST",
     location |-> location, method |-> method, raised |-> raised]

\* what a route answered to the request body arg
Answer(op, arg, status, body, db) ==
    [op |-> op, arg |-> arg, status |-> status, body |-> body, db |-> db]

\* what an engine method returned for its argument, and whether a database
\* call it made raised
Return(op, arg, ret, raised) ==
    [op |-> op, arg |-> arg, ret |-> ret, raised |-> raised]

\* a step of a request thread that is not an answer yet
Step(op, ret) == [op |-> op, ret |-> ret]

(* --------------------------- JSON request values ---------------------- *)

\* a value of the request's JSON body: a string (a text) or an integer
JStr(text) == [type |-> "str", n |-> 0, s |-> text]
JInt(n) == [type |-> "int", n |-> n, s |-> <<>>]
\* the key is not in the body
JAbsent == [type |-> "absent", n |-> 0, s |-> <<>>]
\* a JSON number with a fraction, held in tenths: JFloat(457) is 45.7
JFloat(tenths) == [type |-> "float", n |-> tenths, s |-> <<>>]
\* Infinity and NaN, which json.loads accepts
JInf == [type |-> "inf", n |-> 0, s |-> <<>>]
JNaN == [type |-> "nan", n |-> 0, s |-> <<>>]
\* true (n = 1) and false (n = 0)
JBool(b) == [type |-> "bool", n |-> IF b THEN 1 ELSE 0, s |-> <<>>]
JNull == [type |-> "null", n |-> 0, s |-> <<>>]
\* a non-empty array
JList == [type |-> "list", n |-> 0, s |-> <<>>]

Digits == <<"0", "1", "2", "3", "4", "5", "6", "7", "8", "9">>

is_digit(c) == \E i \in 1..Len(Digits) : Digits[i] = c

digit_value(c) == (CHOOSE i \in 1..Len(Digits) : Digits[i] = c) - 1

RECURSIVE decimal(_)
decimal(text) ==
    IF text = <<>> THEN 0
    ELSE 10 * decimal(SubSeq(text, 1, Len(text) - 1)) + digit_value(text[Len(text)])

all_digits(text) == text # <<>> /\ \A i \in 1..Len(text) : is_digit(text[i])

\* int(value) returned v
Converted(v) == [ok |-> TRUE, v |-> v, error |-> "none"]

\* int(value) raised error
Raised(error) == [ok |-> FALSE, v |-> 0, error |-> error]

\* int(value): an integer or a boolean is its value; a number with a
\* fraction is truncated towards zero; Infinity raises OverflowError and
\* NaN ValueError; null and an array raise TypeError; a string is stripped,
\* may carry a sign, and must be decimal digits, else ValueError
to_int(value) ==
    IF value.type \in {"int", "bool"} THEN Converted(value.n)
    ELSE IF value.type = "float"
    THEN Converted(IF value.n >= 0 THEN value.n \div 10
                   ELSE 0 - ((0 - value.n) \div 10))
    ELSE IF value.type = "inf" THEN Raised("OverflowError")
    ELSE IF value.type = "nan" THEN Raised("ValueError")
    ELSE IF value.type \in {"null", "list", "absent"} THEN Raised("TypeError")
    ELSE LET t == strip(value.s)
             signed == t # <<>> /\ Head(t) \in {"-", "+"}
             body == IF signed THEN Tail(t) ELSE t
         IN  IF ~all_digits(body) THEN Raised("ValueError")
             ELSE Converted(IF signed /\ Head(t) = "-" THEN 0 - decimal(body)
                            ELSE decimal(body))

\* bool(value)
truthy(value) ==
    IF value.type \in {"int", "bool", "float"} THEN value.n # 0
    ELSE IF value.type \in {"inf", "nan", "list"} THEN TRUE
    ELSE IF value.type \in {"null", "absent"} THEN FALSE
    ELSE value.s # <<>>

(* --------------------------- engine lifecycle ------------------------- *)

\* init_camera: the camera_engine global after the call; built says whether
\* CameraEngine(...) succeeds when it is constructed
init_camera(engine, built) ==
    IF engine = "None" THEN (IF built THEN "engine" ELSE "None") ELSE engine

\* start_camera, lines 60-64: the camera handle; opened says whether
\* cv2.VideoCapture(0) opens the device
start_camera(cam, opened) ==
    IF cam = "None" \/ cam # "opened"
    THEN (IF opened THEN "opened" ELSE "closed")
    ELSE cam

\* the attendance documents written per student since the last reset
no_records == [k \in {} |-> 0]

\* the attendance documents added for student_id since the last
\* reset_session, after a call that took the collection from att to after
count_record(records, student_id, att, after) ==
    IF BagCardinality(after) = BagCardinality(att) THEN records
    ELSE [k \in DOMAIN records \cup {student_id} |->
            IF k = student_id
            THEN (IF k \in DOMAIN records THEN records[k] ELSE 0)
                     + BagCardinality(after) - BagCardinality(att)
            ELSE records[k]]

\* the loop leaving the remaining recognised students unmarked
mark_recognized_none(ids, marked, db, att, records, session_info, outcome) ==
    [attendance_marked |-> marked, attendance |-> att,
     session_records |-> records]

\* the loop of app.py:646-652 and 810-816: mark_attendance for every
\* recognised student not yet marked; outcome[id] is the outcome of the
\* database calls made for that student
RECURSIVE mark_recognized(_, _, _, _, _, _, _)
mark_recognized(ids, marked, db, att, records, session_info, outcome) ==
    IF ids = {}
    THEN [attendance_marked |-> marked, attendance |-> att,
          session_records |-> records]
    ELSE LET student_id == CHOOSE x \in ids : TRUE
             m == IF student_id \in marked
                  THEN [ret |-> FALSE, attendance_marked |-> marked,
                        attendance |-> att]
                  ELSE mark_attendance(marked, db, att, student_id, session_info,
                                       outcome[student_id], outcome[student_id])
         IN  mark_recognized(ids \ {student_id}, m.attendance_marked, db,
                             m.attendance,
                             count_record(records, student_id, att,
                                          m.attendance),
                             session_info, outcome)

\* app.py:638-642 and 802-806
session_info_of(s) ==
    [doctor_name |-> s["doctor_name"], course_name |-> s["course_name"],
     course_code |-> s["course_code"]]

(* --------------------------- PHASE 2: admin --------------------------- *)

\* POST /admin_auth
admin_auth(password) ==
    /\ IF password = ADMIN_PASSWORD
       THEN /\ session' = session_set(session, "is_admin", TRUE)
            /\ resp' = Answer("admin_auth", password, 200, TRUE, FALSE)
       ELSE /\ session' = session
            /\ resp' = Answer("admin_auth", password, 401, TRUE, FALSE)
    /\ UNCHANGED <<camera_engine, engine_vars, db_vars, now, pc, parts,
                   session_records>>

\* mutant of require_admin: the body runs whatever the session holds
require_admin_open(op, body) == body

\* the require_admin decorator around the body of route op
require_admin(op, body) ==
    IF ~is_admin(session)
    THEN /\ resp' = Redirect(op, "admin_login")
         /\ UNCHANGED <<camera_engine, engine_vars, db_vars, session, now, pc,
                        parts, session_records>>
    ELSE body

\* GET /admin_dashboard
admin_dashboard ==
    require_admin("admin_dashboard",
        /\ resp' = Response("admin_dashboard", 200, TRUE, FALSE)
        /\ UNCHANGED <<camera_engine, engine_vars, db_vars, session, now, pc,
                       parts, session_records>>)

\* a route that only reads a collection: 500 without an engine (no_engine)
\* and on a database error (on_error)
read_route(op, built, outcome, no_engine, on_error) ==
    /\ camera_engine' = init_camera(camera_engine, built)
    /\ resp' = IF camera_engine' = "None"
               THEN Response(op, no_engine, TRUE, FALSE)
               ELSE Response(op, IF outcome = "ok" THEN 200 ELSE on_error,
                             TRUE, TRUE)
    /\ UNCHANGED <<engine_vars, db_vars, session, now, pc, parts,
                   session_records>>

\* GET /api/get_all_students
get_all_students(built, outcome) ==
    require_admin("get_all_students",
        read_route("get_all_students", built, outcome, 500, 500))

\* mutant of delete_student: the cache is not invalidated
delete_student_keeps_cache(student_id, built, outcome) ==
    require_admin("delete_student",
        /\ camera_engine' = init_camera(camera_engine, built)
        /\ IF camera_engine' = "None"
           THEN /\ resp' = Response("delete_student", 500, TRUE, FALSE)
                /\ UNCHANGED students
           ELSE IF outcome = "ok"
           THEN /\ students' = doc_delete(students, student_id)
                /\ resp' = Response("delete_student", 200, TRUE, TRUE)
           ELSE /\ resp' = Response("delete_student", 500, TRUE, TRUE)
                /\ UNCHANGED students
        /\ UNCHANGED <<engine_vars, courses, attendance, session, now, pc,
                       parts, session_records>>)

\* DELETE /api/delete_student/<student_id>
delete_student(student_id, built, outcome) ==
    require_admin("delete_student",
        /\ camera_engine' = init_camera(camera_engine, built)
        /\ IF camera_engine' = "None"
           THEN /\ resp' = Response("delete_student", 500, TRUE, FALSE)
                /\ UNCHANGED <<students, last_cache_update>>
           ELSE IF outcome = "ok"
           THEN /\ students' = doc_delete(students, student_id)
                /\ last_cache_update' = 0
                /\ resp' = Response("delete_student", 200, TRUE, TRUE)
           ELSE /\ resp' = Response("delete_student", 500, TRUE, TRUE)
                /\ UNCHANGED <<students, last_cache_update>>
        /\ UNCHANGED <<camera, is_running, lock, current_frame, mode,
                       recognized_students, attendance_marked, students_cache,
                       frame_count, courses, attendance, session, now, pc,
                       parts, session_records>>)

\* GET /api/get_session_count
get_session_count(built, outcome) ==
    require_admin("get_session_count",
        read_route("get_session_count", built, outcome, 200, 200))

\* datetime.strptime(start_date, '%Y-%m-%d') succeeds: the one well-formed
\* date text of the model
DateText == <<"2", "0", "2", "4", "-", "0", "1", "-", "0", "1">>

strptime_ok(text) == text = DateText

\* the fields of the JSON body of /api/add_course
course_fields(data) ==
    [course_name |-> strip(data.course_name),
     course_code |-> strip(data.course_code),
     doctor_name |-> strip(data.doctor_name),
     password |-> strip(data.password),
     start_date |-> strip(data.start_date),
     lecture_time |-> strip(data.lecture_time),
     total_lectures |-> data.total_lectures,
     class_capacity |-> data.class_capacity]

\* app.py:192: all eight fields are truthy
all_fields(f) ==
    /\ f.course_name # <<>> /\ f.course_code # <<>> /\ f.doctor_name # <<>>
    /\ f.password # <<>> /\ f.start_date # <<>> /\ f.lecture_time # <<>>
    /\ truthy(f.total_lectures) /\ truthy(f.class_capacity)

\* app.py:207-217
course_data(f) ==
    [id |-> f.course_code,
     course_name |-> f.course_name, course_code |-> f.course_code,
     doctor_name |-> f.doctor_name, password |-> f.password,
     start_date |-> f.start_date, lecture_time |-> f.lecture_time,
     total_lectures |-> to_int(f.total_lectures).v,
     class_capacity |-> to_int(f.class_capacity).v]

\* the status without the check of line 198
add_course_status_unchecked(f, outcome) ==
    IF ~all_fields(f) THEN 400
    ELSE IF to_int(f.total_lectures).error = "ValueError" THEN 400
    ELSE IF ~to_int(f.total_lectures).ok THEN 500
    ELSE IF to_int(f.class_capacity).error = "ValueError" THEN 400
    ELSE IF ~to_int(f.class_capacity).ok THEN 500
    ELSE IF ~strptime_ok(f.start_date) THEN 500
    ELSE IF outcome # "ok" THEN 500
    ELSE 200

\* the status of /api/add_course for the fields f, with an engine
add_course_status(f, outcome) ==
    IF ~all_fields(f) THEN 400
    ELSE IF to_int(f.total_lectures).error = "ValueError" THEN 400
    \* an exception that `except ValueError` does not catch: the framework
    \* answers 500
    ELSE IF ~to_int(f.total_lectures).ok THEN 500
    ELSE IF to_int(f.class_capacity).error = "ValueError" THEN 400
    ELSE IF ~to_int(f.class_capacity).ok THEN 500
    ELSE IF to_int(f.total_lectures).v <= 0 \/ to_int(f.class_capacity).v <= 0
    THEN 400
    ELSE IF ~strptime_ok(f.start_date) THEN 500
    ELSE IF outcome # "ok" THEN 500
    ELSE 200

\* POST /api/add_course
add_course(data, built, outcome) ==
    require_admin("add_course",
        LET f == course_fields(data)
        IN  /\ camera_engine' = init_camera(camera_engine, built)
            /\ IF camera_engine' = "None"
               THEN /\ resp' = Answer("add_course", data, 500, TRUE, FALSE)
                    /\ courses' = courses
               ELSE /\ resp' = Answer("add_course", data,
                                      add_course_status(f, outcome), TRUE,
                                      /\ add_course_status(f, outcome) \in {200, 500}
                                      /\ to_int(f.total_lectures).ok
                                      /\ to_int(f.class_capacity).ok
                                      /\ strptime_ok(f.start_date))
                    /\ courses' = IF add_course_status(f, outcome) = 200
                                  THEN doc_set(courses, course_data(f))
                                  ELSE courses
            /\ UNCHANGED <<engine_vars, students, attendance, session, now, pc,
                           parts, session_records>>)

\* GET /api/get_all_courses
get_all_courses(built, outcome) ==
    require_admin("get_all_courses",
        read_route("get_all_courses", built, outcome, 500, 500))

\* DELETE /api/delete_course/<course_code>
delete_course(course_code, built, outcome) ==
    require_admin("delete_course",
        /\ camera_engine' = init_camera(camera_engine, built)
        /\ IF camera_engine' = "None"
           THEN /\ resp' = Response("delete_course", 500, TRUE, FALSE)
                /\ courses' = courses
           ELSE IF outcome = "ok"
           THEN /\ courses' = doc_delete(courses, course_code)
                /\ resp' = Response("delete_course", 200, TRUE, TRUE)
           ELSE /\ resp' = Response("delete_course", 500, TRUE, TRUE)
                /\ courses' = courses
        /\ UNCHANGED <<engine_vars, students, attendance, session, now, pc,
                       parts, session_records>>)

\* GET /admin_logout
admin_logout ==
    /\ session' = session_pop(session, "is_admin")
    /\ resp' = Redirect("admin_logout", "index")
    /\ UNCHANGED <<camera_engine, engine_vars, db_vars, now, pc, parts,
                   session_records>>

(* --------------------------- PHASE 3: doctor -------------------------- *)

\* mutant of doctor_auth_status: the password is not compared
doctor_auth_status_no_password(engine, course_code, password, outcome) ==
    IF course_code = <<>> \/ password = <<>> THEN 400
    ELSE IF engine = "None" THEN 500
    ELSE IF outcome # "ok" THEN 500
    ELSE IF ~doc_exists(courses, course_code) THEN 404
    ELSE 200

\* the status of /doctor_auth for the stripped fields, after init_camera
doctor_auth_status(engine, course_code, password, outcome) ==
    IF course_code = <<>> \/ password = <<>> THEN 400
    ELSE IF engine = "None" THEN 500
    ELSE IF outcome # "ok" THEN 500
    ELSE IF ~doc_exists(courses, course_code) THEN 404
    ELSE IF doc_get(courses, course_code).password # password THEN 401
    ELSE 200

\* app.py:353-358
store_course(s, course_code, doc) ==
    session_set(session_set(session_set(session_set(session_set(session_set(s,
        "course_code", course_code),
        "course_name", doc.course_name),
        "doctor_name", doc.doctor_name),
        "start_date", doc.start_date),
        "total_lectures", doc.total_lectures),
        "class_capacity", doc.class_capacity)

\* POST /doctor_auth
doctor_auth(data, built, outcome) ==
    LET course_code == strip(data.course_code)
        password == strip(data.password)
        engine == IF course_code = <<>> \/ password = <<>>
                  THEN camera_engine
                  ELSE init_camera(camera_engine, built)
        status == doctor_auth_status(engine, course_code, password, outcome)
    IN  /\ camera_engine' = engine
        /\ session' = IF status = 200
                      THEN store_course(session, course_code,
                                        doc_get(courses, course_code))
                      ELSE session
        /\ resp' = Answer("doctor_auth", data, status, TRUE,
                          status \in {200, 401, 404}
                              \/ (status = 500 /\ engine # "None"))
        /\ UNCHANGED <<engine_vars, db_vars, now, pc, parts, session_records>>

\* the require_session decorator around the body of route op
require_session(op, body) ==
    IF ~has_course(session)
    THEN /\ resp' = Redirect(op, "doctor_login")
         /\ UNCHANGED <<camera_engine, engine_vars, db_vars, session, now, pc,
                        parts, session_records>>
    ELSE body

\* GET /course_stats
course_stats(built) ==
    require_session("course_stats",
        /\ camera_engine' = init_camera(camera_engine, built)
        /\ resp' = Response("course_stats", 200, TRUE, camera_engine' # "None")
        /\ UNCHANGED <<engine_vars, db_vars, session, now, pc, parts,
                       session_records>>)

(* ------------------------ PHASE 4: attendance ------------------------- *)

\* app.py:500: data.get('duration', 90)
custom_duration(duration) ==
    IF duration.type = "absent" THEN JInt(90) ELSE duration

\* app.py:503-508: the validated duration, when int() raises nothing but
\* ValueError or TypeError
lecture_duration(value) ==
    IF to_int(value).error \in {"ValueError", "TypeError"} THEN 90
    ELSE IF to_int(value).v < 1 \/ to_int(value).v > 300 THEN 90
    ELSE to_int(value).v

\* POST /start_attendance_session
start_attendance_session(duration) ==
    require_session("start_attendance_session",
        /\ IF to_int(custom_duration(duration)).error = "OverflowError"
           \* not caught at line 507: the request ends in a 500 before
           \* lines 511-512
           THEN /\ session' = session
                /\ resp' = Answer("start_attendance_session", duration, 500,
                                  TRUE, FALSE)
           ELSE /\ session' =
                     session_set(session_set(session, "session_start", now),
                                 "lecture_duration",
                                 lecture_duration(custom_duration(duration)))
                /\ resp' = Answer("start_attendance_session", duration, 200,
                                  TRUE, FALSE)
        /\ UNCHANGED <<camera_engine, engine_vars, db_vars, now, pc, parts,
                       session_records>>)

\* the attendance page starting the camera without reset_session()
attendance_page_keeps_session(built, opened, fail) ==
    require_session("attendance",
        /\ camera_engine' = init_camera(camera_engine, built)
        /\ IF camera_engine' = "None"
           THEN UNCHANGED <<camera, is_running, mode, recognized_students,
                            attendance_marked, students_cache,
                            last_cache_update, session_records>>
           ELSE LET c == update_students_cache(students_cache, last_cache_update,
                                               now, students, fail)
                IN  /\ camera' = start_camera("None", opened)
                    /\ is_running' = TRUE
                    /\ mode' = "attendance"
                    /\ UNCHANGED <<recognized_students, attendance_marked,
                                   session_records>>
                    /\ students_cache' = c.students_cache
                    /\ last_cache_update' = c.last_cache_update
        /\ resp' = Response("attendance", 200, TRUE, camera_engine' # "None")
        /\ UNCHANGED <<lock, current_frame, frame_count, db_vars, session, now,
                       pc, parts>>)

\* GET /attendance
attendance_page(built, opened, fail) ==
    require_session("attendance",
        /\ camera_engine' = init_camera(camera_engine, built)
        /\ IF camera_engine' = "None"
           THEN UNCHANGED <<camera, is_running, mode, recognized_students,
                            attendance_marked, students_cache,
                            last_cache_update, session_records>>
           ELSE \* stop_camera(); reset_session(); start_camera('attendance')
                LET c == update_students_cache(students_cache, last_cache_update,
                                               now, students, fail)
                IN  /\ camera' = start_camera("None", opened)
                    /\ is_running' = TRUE
                    /\ mode' = "attendance"
                    /\ recognized_students' = EmptyDict
                    /\ attendance_marked' = {}
                    /\ session_records' = no_records
                    /\ students_cache' = c.students_cache
                    /\ last_cache_update' = c.last_cache_update
        /\ resp' = Response("attendance", 200, TRUE, camera_engine' # "None")
        /\ UNCHANGED <<lock, current_frame, frame_count, db_vars, session, now,
                       pc, parts>>)

\* GET /register
register_page(built, opened) ==
    /\ camera_engine' = init_camera(camera_engine, built)
    /\ IF camera_engine' = "None"
       THEN UNCHANGED <<camera, is_running, mode>>
       ELSE \* stop_camera(); start_camera('registration')
            /\ camera' = start_camera("None", opened)
            /\ is_running' = TRUE
            /\ mode' = "registration"
    /\ resp' = Response("register", 200, TRUE, FALSE)
    /\ UNCHANGED <<lock, current_frame, frame_count, recognized_students,
                   attendance_marked, students_cache, last_cache_update,
                   db_vars, session, now, pc, parts, session_records>>

\* POST /api/mark_attendance
api_mark_attendance(built, outcome) ==
    IF ~has_course(session)
    THEN /\ resp' = Response("api_mark_attendance", 400, FALSE, FALSE)
         /\ UNCHANGED <<camera_engine, engine_vars, db_vars, session, now, pc,
                        parts, session_records>>
    ELSE /\ camera_engine' = init_camera(camera_engine, built)
         /\ IF camera_engine' = "None"
            THEN /\ resp' = Response("api_mark_attendance", 500, TRUE, FALSE)
                 /\ UNCHANGED <<attendance_marked, attendance, session_records>>
            ELSE LET m == mark_recognized(DOMAIN recognized_students,
                                          attendance_marked, students, attendance,
                                          session_records,
                                          session_info_of(session), outcome)
                 IN  /\ attendance_marked' = m.attendance_marked
                     /\ attendance' = m.attendance
                     /\ session_records' = m.session_records
                     /\ BagCardinality(attendance') <= MaxAttendance
                     /\ resp' = Response("api_mark_attendance", 200, TRUE, TRUE)
         /\ UNCHANGED <<camera, is_running, lock, current_frame, mode,
                        recognized_students, students_cache, last_cache_update,
                        frame_count, students, courses, session, now, pc, parts>>

\* the redirect choosing the course page before the admin dashboard
end_session_location_course_first(s) ==
    IF has_course(s) THEN "course_stats"
    ELSE IF is_admin(s) THEN "admin_dashboard"
    ELSE "index"

\* the redirect of /end_session, app.py:857-863
end_session_location(s) ==
    IF is_admin(s) THEN "admin_dashboard"
    ELSE IF has_course(s) THEN "course_stats"
    ELSE "index"

\* GET or POST /end_session
end_session(method, built, outcome) ==
    /\ camera_engine' = init_camera(camera_engine, built)
    /\ IF camera_engine' = "None"
       THEN UNCHANGED <<camera, is_running, recognized_students,
                        attendance_marked, attendance, session_records>>
       ELSE LET m == IF method = "POST" /\ has_course(session)
                     THEN mark_recognized(DOMAIN recognized_students,
                                          attendance_marked, students, attendance,
                                          session_records,
                                          session_info_of(session), outcome)
                     ELSE [attendance_marked |-> attendance_marked,
                           attendance |-> attendance,
                           session_records |-> session_records]
            IN  /\ attendance' = m.attendance
                /\ BagCardinality(attendance') <= MaxAttendance
                \* stop_camera(); reset_session()
                /\ is_running' = FALSE
                /\ camera' = "None"
                /\ attendance_marked' = {}
                /\ recognized_students' = EmptyDict
                /\ session_records' = no_records
    /\ session' = session_pop(session_pop(session, "session_start"),
                              "lecture_duration")
    /\ resp' = Finished("end_session", method,
                        /\ camera_engine' # "None"
                        /\ method = "POST" /\ has_course(session)
                        /\ \E id \in DOMAIN recognized_students
                                       \ attendance_marked :
                               outcome[id] # "ok",
                        end_session_location(session))
    /\ UNCHANGED <<lock, current_frame, mode, students_cache, last_cache_update,
                   frame_count, students, courses, now, pc, parts>>

\* GET /api/session_stats
session_stats(built) ==
    /\ camera_engine' = init_camera(camera_engine, built)
    /\ resp' = Response("session_stats", 200, TRUE, FALSE)
    /\ UNCHANGED <<engine_vars, db_vars, session, now, pc, parts,
                   session_records>>

\* the list built by the loop of app.py:612-618, one entry per item of
\* recognized_students (the order and the timestamps are left out)
recognized_entries(recognized, marked) ==
    {[student_id |-> student_id, name |-> recognized[student_id].name,
      is_marked |-> student_id \in marked] : student_id \in DOMAIN recognized}

\* GET /api/get_recognized_students
get_recognized_students(built) ==
    /\ camera_engine' = init_camera(camera_engine, built)
    /\ resp' = [op |-> "get_recognized_students", status |-> 200,
                body |-> TRUE, db |-> FALSE,
                students |-> IF camera_engine' = "None" THEN {}
                             ELSE recognized_entries(recognized_students,
                                                     attendance_marked)]
    /\ UNCHANGED <<engine_vars, db_vars, session, now, pc, parts,
                   session_records>>

(* ------------------- the engine's methods, called alone --------------- *)

\* CameraEngine._update_students_cache()
call_update_students_cache(fail) ==
    /\ camera_engine = "engine"
    /\ LET c == update_students_cache(students_cache, last_cache_update, now,
                                      students, fail)
       IN  /\ students_cache' = c.students_cache
           /\ last_cache_update' = c.last_cache_update
    /\ resp' = Return("update_students_cache", "None", "None",
                       fail.at # "none")
    /\ UNCHANGED <<camera_engine, camera, is_running, lock, current_frame, mode,
                   recognized_students, attendance_marked, frame_count, db_vars,
                   session, now, pc, parts, session_records>>

\* CameraEngine._recognize_face(frame, x, y, w, h) for the face in the box
call_recognize_face(face, fail) ==
    /\ camera_engine = "engine"
    /\ \E c \in {update_students_cache(students_cache, last_cache_update, now,
                                        students, fail)} :
       \E r \in {recognize_face(c.students_cache, attendance_marked,
                                recognized_students, face)} :
           /\ students_cache' = c.students_cache
           /\ last_cache_update' = c.last_cache_update
           /\ recognized_students' = r.recognized_students
           /\ resp' = Return("recognize_face", face, r.ret, fail.at # "none")
    /\ UNCHANGED <<camera_engine, camera, is_running, lock, current_frame, mode,
                   attendance_marked, frame_count, db_vars, session, now, pc,
                   parts, session_records>>

\* CameraEngine.register_student(name, student_id, embedding)
call_register_student(name, student_id, embedding, outcome) ==
    /\ camera_engine = "engine"
    /\ LET r == register_student(students, last_cache_update, name, student_id,
                                 embedding, outcome)
       IN  /\ students' = r.students
           /\ last_cache_update' = r.last_cache_update
           /\ resp' = Return("register_student",
                              [name |-> name, student_id |-> student_id,
                               embedding |-> embedding],
                              r.ret, outcome # "ok")
    /\ UNCHANGED <<camera_engine, camera, is_running, lock, current_frame, mode,
                   recognized_students, attendance_marked, students_cache,
                   frame_count, courses, attendance, session, now, pc, parts,
                   session_records>>

\* CameraEngine.mark_attendance(student_id, session_info)
call_mark_attendance(student_id, session_info, get_outcome, add_outcome) ==
    /\ camera_engine = "engine"
    /\ LET m == mark_attendance(attendance_marked, students, attendance,
                                student_id, session_info, get_outcome, add_outcome)
       IN  /\ attendance_marked' = m.attendance_marked
           /\ attendance' = m.attendance
           /\ BagCardinality(attendance') <= MaxAttendance
           /\ session_records' = count_record(session_records, student_id,
                                               attendance, m.attendance)
           /\ resp' = Return("mark_attendance", student_id, m.ret,
                              /\ student_id \notin attendance_marked
                              /\ \/ get_outcome # "ok"
                                 \/ /\ doc_exists(students, student_id)
                                    /\ add_outcome # "ok")
    /\ UNCHANGED <<camera_engine, camera, is_running, lock, current_frame, mode,
                   recognized_students, students_cache, last_cache_update,
                   frame_count, students, courses, session, now, pc, parts>>

\* CameraEngine.reset_session()
call_reset_session ==
    /\ camera_engine = "engine"
    /\ attendance_marked' = {}
    /\ recognized_students' = EmptyDict
    /\ session_records' = no_records
    /\ resp' = Step("reset_session", "None")
    /\ UNCHANGED <<camera_engine, camera, is_running, lock, current_frame, mode,
                   students_cache, last_cache_update, frame_count, db_vars,
                   session, now, pc, parts>>

(* ------------------------------- time --------------------------------- *)

\* time.time() when the program starts: later than one cache lifetime
\* after the epoch
StartTime == cache_lifetime

TickStep == cache_lifetime \div 2

\* time passes
tick ==
    /\ now < StartTime + MaxTicks * TickStep
    /\ now' = now + TickStep
    /\ resp' = Step("tick", "None")
    /\ UNCHANGED <<camera_engine, engine_vars, db_vars, session, pc, parts,
                   session_records>>

(* --------------------------- request threads -------------------------- *)

\* the thread of the /video_feed response and that of /api/capture_face
Threads == {"video", "capture"}

Idle == [at |-> "idle", name |-> <<>>, student_id |-> <<>>]

At(thread, label) == pc[thread].at = label

Goto(thread, label) == [pc EXCEPT ![thread].at = label]

\* lines 142-143 for every detection of the frame: _recognize_face refreshes
\* the cache and matches the face
RECURSIVE recognize_faces(_, _, _, _, _, _, _, _)
recognize_faces(faces, cache, lcu, t, db, marked, recognized, fail) ==
    IF faces = <<>>
    THEN [students_cache |-> cache, last_cache_update |-> lcu,
          recognized_students |-> recognized]
    ELSE LET c == update_students_cache(cache, lcu, t, db, fail)
             r == recognize_face(c.students_cache, marked, recognized, Head(faces))
         IN  recognize_faces(Tail(faces), c.students_cache, c.last_cache_update,
                             t, db, marked, r.recognized_students, fail)

\* GET /video_feed: the response starts the generator
video_feed ==
    /\ At("video", "idle")
    /\ pc' = Goto("video", "generate")
    /\ resp' = Response("video_feed", 200, TRUE, FALSE)
    /\ UNCHANGED <<camera_engine, engine_vars, db_vars, session, now, parts,
                   session_records>>

\* generate(), app.py:552-556: without an engine one blank part, and the end
generate_start(built) ==
    /\ At("video", "generate")
    /\ camera_engine' = init_camera(camera_engine, built)
    /\ IF camera_engine' = "None"
       THEN /\ parts' = [parts EXCEPT !.blank = @ + 1]
            /\ pc' = Goto("video", "done")
       ELSE /\ parts' = parts
            /\ pc' = Goto("video", "loop")
    /\ resp' = Step("generate", "None")
    /\ UNCHANGED <<engine_vars, db_vars, session, now, session_records>>

\* get_frame, line 109, called by the loop of generate(): None when the
\* camera is not running (the loop sleeps and asks again)
get_frame_check ==
    /\ At("video", "loop")
    /\ IF ~is_running \/ camera = "None"
       THEN /\ pc' = pc
            /\ resp' = Step("get_frame", "None")
       ELSE /\ pc' = Goto("video", "read")
            /\ resp' = Step("get_frame", "reading")
    /\ UNCHANGED <<camera_engine, engine_vars, db_vars, session, now, parts,
                   session_records>>

\* get_frame from line 112 on, and the yield of app.py:564: success is that
\* of camera.read(), faces are the detections, encoded is that of imencode
get_frame_read(success, faces, fail, encoded) ==
    /\ At("video", "read")
    /\ IF camera = "None"
       THEN \* self.camera.read() on None raises out of get_frame and generate()
            /\ pc' = Goto("video", "raised")
            /\ resp' = Step("get_frame", "AttributeError")
            /\ UNCHANGED <<frame_count, current_frame, students_cache,
                           last_cache_update, recognized_students, parts>>
       ELSE IF camera # "opened" \/ ~success
       THEN /\ pc' = Goto("video", "loop")
            /\ resp' = Step("get_frame", "None")
            /\ UNCHANGED <<frame_count, current_frame, students_cache,
                           last_cache_update, recognized_students, parts>>
       ELSE /\ frame_count' = (frame_count + 1) % frame_skip
            /\ pc' = Goto("video", "loop")
            /\ IF frame_count' # 0 /\ current_frame # "None"
               THEN \* the cached frame
                    /\ parts.frame < MaxParts
                    /\ parts' = [parts EXCEPT !.frame = @ + 1]
                    /\ resp' = Step("get_frame", "cached")
                    /\ UNCHANGED <<current_frame, students_cache,
                                   last_cache_update, recognized_students>>
               ELSE LET r == IF mode = "attendance"
                             THEN recognize_faces(faces, students_cache,
                                      last_cache_update, now, students,
                                      attendance_marked, recognized_students, fail)
                             ELSE [students_cache |-> students_cache,
                                   last_cache_update |-> last_cache_update,
                                   recognized_students |-> recognized_students]
                    IN  /\ students_cache' = r.students_cache
                        /\ last_cache_update' = r.last_cache_update
                        /\ recognized_students' = r.recognized_students
                        /\ IF encoded
                           THEN /\ parts.frame < MaxParts
                                /\ current_frame' = "jpeg"
                                /\ parts' = [parts EXCEPT !.frame = @ + 1]
                                /\ resp' = Step("get_frame", "jpeg")
                           ELSE /\ UNCHANGED <<current_frame, parts>>
                                /\ resp' = Step("get_frame", "None")
    /\ UNCHANGED <<camera_engine, camera, is_running, lock, mode,
                   attendance_marked, db_vars, session, now, session_records>>

\* POST /api/capture_face up to line 278 of capture_face
api_capture_face(data, built) ==
    /\ At("capture", "idle")
    /\ LET name == strip(data.name)
           student_id == strip(data.student_id)
           engine == IF name = <<>> \/ student_id = <<>>
                     THEN camera_engine
                     ELSE init_camera(camera_engine, built)
       IN  /\ camera_engine' = engine
           /\ IF name = <<>> \/ student_id = <<>>
              THEN /\ resp' = Response("capture_face", 400, TRUE, FALSE)
                   /\ pc' = pc
              ELSE IF engine = "None"
              THEN /\ resp' = Response("capture_face", 500, TRUE, FALSE)
                   /\ pc' = pc
              ELSE IF ~is_running \/ camera = "None"
              THEN /\ resp' = Response("capture_face", 400, TRUE, FALSE)
                   /\ pc' = pc
              ELSE /\ resp' = Step("capture_face", "reading")
                   /\ pc' = [pc EXCEPT !["capture"] =
                                [at |-> "read", name |-> name,
                                 student_id |-> student_id]]
    /\ UNCHANGED <<engine_vars, db_vars, session, now, parts, session_records>>

\* capture_face from line 281 on, and register_student (app.py:593)
capture_face_read(success, face, outcome) ==
    /\ At("capture", "read")
    /\ pc' = [pc EXCEPT !["capture"] = Idle]
    /\ IF camera = "None"
       THEN \* self.camera.read() on None raises: the request fails
            /\ resp' = Response("capture_face", 500, FALSE, FALSE)
            /\ UNCHANGED <<students, last_cache_update>>
       ELSE IF camera # "opened" \/ ~success \/ face.kind # "embedding"
       THEN /\ resp' = Response("capture_face", 400, TRUE, FALSE)
            /\ UNCHANGED <<students, last_cache_update>>
       ELSE LET r == register_student(students, last_cache_update,
                                      pc["capture"].name,
                                      pc["capture"].student_id,
                                      face.embedding, outcome)
            IN  /\ students' = r.students
                /\ last_cache_update' = r.last_cache_update
                /\ resp' = Response("capture_face",
                                    IF r.ret THEN 200 ELSE 500, TRUE, TRUE)
    /\ UNCHANGED <<camera_engine, camera, is_running, lock, current_frame, mode,
                   recognized_students, attendance_marked, students_cache,
                   frame_count, courses, attendance, session, now, parts,
                   session_records>>

(* ------------------- init_camera on request threads ------------------ *)

\* request threads inside init_camera (app.run(..., threaded=True),
\* app.py:868), and the CameraEngine instance each of them constructs when
\* its constructor call succeeds
EngineOf ==
    [caller1 |-> "engine", caller2 |-> "engine2", caller3 |-> "engine3"]

Callers == DOMAIN EngineOf

\* a thread outside init_camera: whether it has constructed a CameraEngine,
\* and what its calls have returned so far
Outside == [at |-> "idle", constructed |-> FALSE, obtained |-> {}]

\* app.py:28: if camera_engine is None
init_camera_check(caller) ==
    /\ At(caller, "idle")
    /\ pc' = Goto(caller, IF camera_engine = "None" THEN "construct"
                          ELSE "return")
    /\ resp' = Step("init_camera", "check")
    /\ UNCHANGED <<camera_engine, engine_vars, db_vars, session, now, parts,
                   session_records>>

\* app.py:29-33: CameraEngine("firebase_config.json") returns an instance,
\* or raises and init_camera returns None
init_camera_construct(caller, built) ==
    /\ At(caller, "construct")
    /\ pc' = IF built
             THEN [pc EXCEPT ![caller].at = "assign",
                             ![caller].constructed = TRUE]
             ELSE [pc EXCEPT ![caller].at = "idle",
                             ![caller].obtained = @ \cup {"None"}]
    /\ resp' = Step("init_camera", IF built THEN "constructed" ELSE "None")
    /\ UNCHANGED <<camera_engine, engine_vars, db_vars, session, now, parts,
                   session_records>>

\* app.py:30: the assignment to the global; the engine it names from now on
\* is the new instance, with the fields __init__ gave it
init_camera_assign(caller) ==
    /\ At(caller, "assign")
    /\ pc' = Goto(caller, "return")
    /\ camera_engine' = EngineOf[caller]
    /\ camera' = "None"
    /\ is_running' = FALSE
    /\ lock' = "free"
    /\ current_frame' = "None"
    /\ mode' = "registration"
    /\ recognized_students' = EmptyDict
    /\ attendance_marked' = {}
    /\ students_cache' = <<>>
    /\ last_cache_update' = 0
    /\ frame_count' = 0
    /\ session_records' = no_records
    /\ resp' = Step("init_camera", "assigned")
    /\ UNCHANGED <<db_vars, session, now, parts>>

\* app.py:34: return camera_engine
init_camera_return(caller) ==
    /\ At(caller, "return")
    /\ pc' = [pc EXCEPT ![caller].at = "idle",
                        ![caller].obtained = @ \cup {camera_engine}]
    /\ resp' = Step("init_camera", camera_engine)
    /\ UNCHANGED <<camera_engine, engine_vars, db_vars, session, now, parts,
                   session_records>>

(* ------------------------------- inputs ------------------------------- *)

StudentIds == {<<"1">>, <<"2">>}

StudentNames == {<<"a">>}

\* embeddings of registered faces and of faces in front of the camera:
\* cosine similarities 1, 24/25, 4/5, 3/5 (the threshold itself) and 0
StoredEmbeddings == {<<3, 4>>, <<5, 0>>}

FaceEmbeddings == {<<3, 4>>, <<4, 3>>, <<0, 0>>}

\* a frame with the face whose embedding is <<3, 4>>
KnownFace == [kind |-> "embedding", embedding |-> <<3, 4>>]

\* the database when the program starts: one student document written
\* without an embedding
SeedStudent ==
    [id |-> <<"3">>, name |-> <<"c">>, student_id |-> <<"3">>,
     embedding |-> <<>>]

\* names for a student registered a second time
RegisteredNames == {<<"a">>, <<"b">>}

\* JSON bodies of /api/add_course
CourseBody(course_code, password, total_lectures, start_date) ==
    [course_name |-> <<"n">>, course_code |-> course_code,
     doctor_name |-> <<"d">>, password |-> password,
     start_date |-> start_date, lecture_time |-> <<"9">>,
     total_lectures |-> total_lectures, class_capacity |-> JInt(5)]

CourseCodes == {<<"x">>, <<"x", " ">>}

CoursePasswords == {<<"p">>, <<"q">>}

CourseBodies ==
    {CourseBody(c, p, t, DateText) :
        c \in CourseCodes, p \in CoursePasswords,
        t \in {JInt(2), JStr(<<"0">>)}}
    \cup {CourseBody(<<"x">>, <<"p">>, JInt(2), <<"1">>),
          CourseBody(<<" ">>, <<"p">>, JInt(2), DateText)}

\* passwords posted to /admin_auth
AdminPasswords == {ADMIN_PASSWORD, ADMIN_PASSWORD \o <<" ">>, <<"x">>}

\* JSON bodies of /doctor_auth
DoctorBody(course_code, password) ==
    [course_code |-> course_code, password |-> password]

DoctorBodies ==
    {DoctorBody(<<"x">>, <<"p">>), DoctorBody(<<"x", " ">>, <<"p", " ">>),
     DoctorBody(<<"x">>, <<"q">>), DoctorBody(<<"y">>, <<"p">>),
     DoctorBody(<<"x">>, <<" ">>)}

\* JSON bodies of /api/add_course posted in the web specification
WebCourseBodies ==
    {CourseBody(<<"x">>, <<"p">>, JInt(2), DateText),
     CourseBody(<<"x">>, <<"p">>, JStr(<<"0">>), DateText)}

\* the 'duration' of the body of /start_attendance_session
Durations == {JInt(5)}

\* the outcome of the database calls made for each recognised student
Outcomes(ids) == [ids -> DbOutcomes]

\* JSON bodies of /api/capture_face
CaptureBodies ==
    {[name |-> <<"a">>, student_id |-> <<"1">>],
     [name |-> <<"b", " ">>, student_id |-> <<" ", "1">>],
     [name |-> <<" ">>, student_id |-> <<"2">>]}

SessionInfos ==
    {[doctor_name |-> <<"d">>, course_name |-> <<"n">>, course_code |-> <<"c">>]}

(* ---------------------------- specification --------------------------- *)

Started ==
    /\ camera_engine = "None"
    /\ camera = "None"
    /\ is_running = FALSE
    /\ lock = "free"
    /\ current_frame = "None"
    /\ mode = "registration"
    /\ recognized_students = EmptyDict
    /\ attendance_marked = {}
    /\ students_cache = <<>>
    /\ last_cache_update = 0
    /\ frame_count = 0
    /\ students = {SeedStudent}
    /\ courses = {}
    /\ attendance = EmptyBag
    /\ session = EmptyDict
    /\ now = StartTime
    /\ pc = [t \in Threads \cup Callers |->
                 IF t \in Threads THEN Idle ELSE Outside]
    /\ parts = [blank |-> 0, frame |-> 0]
    /\ session_records = no_records

Init == Started /\ resp = Step("start", "None")

\* embeddings with an integer norm, the zero vector among them
Embeddings ==
    {<<0, 0>>, <<3, 4>>, <<4, 3>>, <<0 - 3, 4>>, <<0 - 3, 0 - 4>>, <<5, 0>>,
     <<0, 5>>, <<0 - 5, 0>>, <<6, 8>>, <<5, 12>>, <<8, 15>>, <<1, 0>>}

\* two embeddings about to be compared
InitSimilarity ==
    /\ Started
    /\ \E vec1 \in Embeddings, vec2 \in Embeddings :
          resp = Step("embeddings", [vec1 |-> vec1, vec2 |-> vec2])

\* _cosine_similarity(vec1, vec2)
call_cosine_similarity ==
    /\ resp.op = "embeddings"
    /\ resp' = Return("cosine_similarity", resp.ret,
                      cosine_similarity(resp.ret.vec1, resp.ret.vec2), FALSE)
    /\ UNCHANGED <<camera_engine, engine_vars, db_vars, session, now, pc, parts,
                   session_records>>

NextSimilarity == call_cosine_similarity

SpecSimilarity == InitSimilarity /\ [][NextSimilarity]_vars

\* the cache of students: the engine's methods that read or write it, each
\* called alone on the constructed engine, the route that invalidates it
\* itself (delete_student), and the clock
NextCache ==
    \/ \E built \in BOOLEAN : session_stats(built)
    \/ admin_auth(ADMIN_PASSWORD)
    \/ \E id \in StudentIds, outcome \in DbOutcomes :
          delete_student(id, TRUE, outcome)
    \/ \E fail \in RefreshFailPoints(last_cache_update, now, students) :
          call_update_students_cache(fail)
    \/ \E face \in Faces(FaceEmbeddings),
          fail \in RefreshFailPoints(last_cache_update, now, students) :
          call_recognize_face(face, fail)
    \/ \E name \in StudentNames, id \in StudentIds, e \in StoredEmbeddings,
          outcome \in DbOutcomes :
          call_register_student(name, id, e, outcome)
    \/ tick

SpecCache == Init /\ [][NextCache]_vars

\* the stored records: the operations that write or delete students and
\* courses
NextData ==
    \/ \E built \in BOOLEAN : session_stats(built)
    \/ admin_auth(ADMIN_PASSWORD)
    \/ admin_logout
    \/ call_update_students_cache(NoFail)
    \/ \E name \in RegisteredNames, id \in StudentIds, outcome \in DbOutcomes :
          call_register_student(name, id, <<3, 4>>, outcome)
    \/ \E id \in StudentIds, outcome \in DbOutcomes :
          delete_student(id, TRUE, outcome)
    \/ \E data \in CourseBodies, built \in BOOLEAN, outcome \in DbOutcomes :
          add_course(data, built, outcome)
    \/ \E outcome \in DbOutcomes : delete_course(<<"x">>, TRUE, outcome)

SpecData == Init /\ [][NextData]_vars

\* the web layer: the routes of the admin and of the doctor, for one client
NextWeb ==
    \/ \E password \in AdminPasswords : admin_auth(password)
    \/ admin_logout
    \/ admin_dashboard
    \/ \E built \in BOOLEAN, outcome \in DbOutcomes :
          get_all_students(built, outcome)
    \/ delete_student(<<"1">>, TRUE, "ok")
    \/ \E outcome \in DbOutcomes : get_session_count(TRUE, outcome)
    \/ \E data \in WebCourseBodies, outcome \in DbOutcomes :
          add_course(data, TRUE, outcome)
    \/ \E outcome \in DbOutcomes : get_all_courses(TRUE, outcome)
    \/ \E outcome \in DbOutcomes : delete_course(<<"x">>, TRUE, outcome)
    \/ \E data \in DoctorBodies, outcome \in DbOutcomes :
          doctor_auth(data, TRUE, outcome)
    \/ course_stats(TRUE)
    \/ \E duration \in Durations : start_attendance_session(duration)
    \/ attendance_page(TRUE, TRUE, NoFail)
    \/ \E outcome \in Outcomes(DOMAIN recognized_students) :
          api_mark_attendance(TRUE, outcome)
    \/ \E outcome \in Outcomes(DOMAIN recognized_students) :
          end_session("POST", TRUE, outcome)
    \/ call_register_student(<<"a">>, <<"1">>, <<3, 4>>, "ok")
    \/ call_recognize_face(KnownFace, NoFail)

SpecWeb == Init /\ [][NextWeb]_vars

\* the camera: the threads of the /video_feed response and of
\* /api/capture_face, and the requests that start and stop the camera
NextCamera ==
    \/ video_feed
    \/ \E built \in BOOLEAN : generate_start(built)
    \/ get_frame_check
    \/ \E success \in BOOLEAN, encoded \in BOOLEAN :
          get_frame_read(success, <<>>, NoFail, encoded)
    \/ \E data \in CaptureBodies, built \in BOOLEAN :
          api_capture_face(data, built)
    \/ \E success \in BOOLEAN, face \in Faces({<<3, 4>>}),
          outcome \in DbOutcomes :
          capture_face_read(success, face, outcome)
    \/ \E built \in BOOLEAN, opened \in BOOLEAN : register_page(built, opened)
    \/ \E method \in {"GET", "POST"}, built \in BOOLEAN,
          outcome \in Outcomes(DOMAIN recognized_students) :
          end_session(method, built, outcome)

SpecCamera == Init /\ [][NextCamera]_vars

\* an attendance session from the doctor's login to its end, with two
\* courses and a student who can be registered, recognised and deleted
SessionCourseBodies ==
    {CourseBody(<<"x">>, <<"p">>, JInt(2), DateText),
     CourseBody(<<"y">>, <<"p">>, JInt(2), DateText)}

SessionDoctorBodies ==
    {DoctorBody(<<"x">>, <<"p">>), DoctorBody(<<"y">>, <<"p">>)}

NextSession ==
    \/ admin_auth(ADMIN_PASSWORD)
    \/ admin_logout
    \/ \E data \in SessionCourseBodies : add_course(data, TRUE, "ok")
    \/ \E data \in SessionDoctorBodies : doctor_auth(data, TRUE, "ok")
    \/ \E duration \in Durations : start_attendance_session(duration)
    \/ \E opened \in BOOLEAN,
          fail \in RefreshFailPoints(last_cache_update, now, students) :
          attendance_page(TRUE, opened, fail)
    \/ register_page(TRUE, TRUE)
    \/ call_register_student(<<"a">>, <<"1">>, <<3, 4>>, "ok")
    \/ delete_student(<<"1">>, TRUE, "ok")
    \/ call_recognize_face(KnownFace, NoFail)
    \/ \E outcome \in Outcomes(DOMAIN recognized_students) :
          api_mark_attendance(TRUE, outcome)
    \/ \E method \in {"GET", "POST"},
          outcome \in Outcomes(DOMAIN recognized_students) :
          end_session(method, TRUE, outcome)
    \/ \E built \in BOOLEAN : get_recognized_students(built)

SpecSession == Init /\ [][NextSession]_vars

\* the attendance of a session: the engine's methods that read or write
\* attendance_marked, the students and the attendance documents
NextMark ==
    \/ \E built \in BOOLEAN : session_stats(built)
    \/ admin_auth(ADMIN_PASSWORD)
    \/ \E id \in StudentIds, outcome \in DbOutcomes :
          delete_student(id, TRUE, outcome)
    \/ \E fail \in RefreshFailPoints(last_cache_update, now, students) :
          call_update_students_cache(fail)
    \/ \E name \in StudentNames, id \in StudentIds, e \in StoredEmbeddings,
          outcome \in DbOutcomes :
          call_register_student(name, id, e, outcome)
    \/ \E id \in StudentIds, info \in SessionInfos, g \in DbOutcomes,
          a \in DbOutcomes :
          call_mark_attendance(id, info, g, a)
    \/ call_reset_session

SpecMark == Init /\ [][NextMark]_vars

\* the durations asked for: missing, inside and outside 1..300, the two
\* ends, strings, numbers with a fraction, booleans, null, an array, NaN
\* and Infinity
RequestedDurations ==
    {JAbsent, JInt(0), JInt(1), JInt(5), JInt(300), JInt(301), JInt(0 - 5),
     JStr(<<"7">>), JStr(<<" ", "7", " ">>), JStr(<<"0">>), JStr(<<"x">>),
     JStr(<<>>), JFloat(457), JFloat(5), JFloat(3009), JFloat(0 - 5),
     JBool(TRUE), JBool(FALSE), JNull, JList, JNaN, JInf}

\* the doctor's requests around the start of a session
NextDuration ==
    \/ admin_auth(ADMIN_PASSWORD)
    \/ admin_logout
    \/ \E data \in SessionCourseBodies : add_course(data, TRUE, "ok")
    \/ \E data \in SessionDoctorBodies : doctor_auth(data, TRUE, "ok")
    \/ \E duration \in RequestedDurations : start_attendance_session(duration)
    \/ \E method \in {"GET", "POST"},
          outcome \in Outcomes(DOMAIN recognized_students) :
          end_session(method, TRUE, outcome)

SpecDuration == Init /\ [][NextDuration]_vars

\* requests served on threads, each calling init_camera
NextInit ==
    \/ \E caller \in Callers : init_camera_check(caller)
    \/ \E caller \in Callers, built \in BOOLEAN :
          init_camera_construct(caller, built)
    \/ \E caller \in Callers : init_camera_assign(caller)
    \/ \E caller \in Callers : init_camera_return(caller)

SpecInit == Init /\ [][NextInit]_vars

\* values posted as total_lectures and class_capacity
SubmittedCounts ==
    {JInt(2), JInt(0), JInt(0 - 1), JStr(<<"3">>), JStr(<<"0">>),
     JStr(<<"-", "2">>), JStr(<<"x">>), JStr(<<>>), JAbsent, JFloat(25),
     JFloat(5), JBool(TRUE), JNull, JList, JNaN, JInf}

\* a body with the six text fields filled in
FilledBody(course_code, total_lectures, class_capacity) ==
    [course_name |-> <<"n">>, course_code |-> course_code,
     doctor_name |-> <<"d">>, password |-> <<"p">>,
     start_date |-> DateText, lecture_time |-> <<"9">>,
     total_lectures |-> total_lectures, class_capacity |-> class_capacity]

\* a body that add_course accepts
ValidCourse == FilledBody(<<"x">>, JInt(2), JInt(5))

TextFields ==
    {"course_name", "course_code", "doctor_name", "password", "start_date",
     "lecture_time"}

\* bodies posted to /api/add_course: every value of each count beside a
\* valid and beside an invalid other count, and every text field in turn
\* empty, blank or (the date) malformed
SubmittedCourses ==
    {FilledBody(<<"x">>, t, c) :
        t \in SubmittedCounts, c \in {JInt(5), JStr(<<"0">>)}}
    \cup {FilledBody(<<"x">>, t, c) :
            t \in {JInt(2), JStr(<<"x">>)}, c \in SubmittedCounts}
    \cup {FilledBody(<<"y">>, JInt(2), JStr(<<"3">>))}
    \cup {[FilledBody(<<"x">>, JInt(2), JInt(5)) EXCEPT ![k] = v] :
            k \in TextFields, v \in {<<>>, <<" ">>, <<"1">>}}

\* the admin adding and deleting courses
NextCourse ==
    \/ admin_auth(ADMIN_PASSWORD)
    \/ admin_logout
    \/ \E data \in SubmittedCourses, outcome \in DbOutcomes :
          add_course(data, TRUE, outcome)
    \/ add_course(ValidCourse, FALSE, "ok")
    \/ \E course_code \in {<<"x">>, <<"y">>}, outcome \in DbOutcomes :
          delete_course(course_code, TRUE, outcome)

SpecCourse == Init /\ [][NextCourse]_vars

\* the whole program
Next ==
    \/ NextCache \/ NextMark \/ NextData \/ NextWeb \/ NextCamera
    \/ NextSession \/ NextDuration \/ NextInit \/ NextCourse
    \/ NextSimilarity

Spec == Init /\ [][Next]_vars


(* ------------------------------ C2 ------------------------------------ *)

\* the similarity of the face embedding e to the i-th cached student
SimilarityTo(cache, e, i) == cosine_similarity(e, cache[i].embedding)

\* the cached students whose similarity to e is above the threshold
AboveThreshold(cache, e) ==
    {i \in 1..Len(cache) : RatGT(SimilarityTo(cache, e, i), RecognitionThreshold)}

\* the earliest cached student whose similarity to e is the maximum over
\* the whole cache
EarliestMaximum(cache, e) ==
    CHOOSE i \in 1..Len(cache) :
        /\ \A j \in 1..Len(cache) :
              ~RatGT(SimilarityTo(cache, e, j), SimilarityTo(cache, e, i))
        /\ \A j \in 1..(i - 1) :
              RatGT(SimilarityTo(cache, e, i), SimilarityTo(cache, e, j))

\* C2: a _recognize_face call for a face with embedding e accepts the
\* cached student of maximum cosine similarity to e (the earliest on a tie)
\* when that maximum is above 0.6, and records that student in
\* recognized_students; when no cached student is above 0.6, or the cache is
\* empty, it returns ("Unknown", "unknown") and leaves recognized_students
\* unchanged.
C2_AcceptsBestMatch ==
    [][(resp'.op = "recognize_face" /\ resp'.arg.kind = "embedding") =>
        LET cache == students_cache'
            e == resp'.arg.embedding
        IN  IF AboveThreshold(cache, e) # {}
            THEN LET best == cache[EarliestMaximum(cache, e)]
                 IN  /\ resp'.ret.name = best.name
                     /\ resp'.ret.status \in {"new", "already_marked"}
                     /\ DOMAIN recognized_students' =
                            DOMAIN recognized_students \cup {best.student_id}
                     /\ recognized_students'[best.student_id].name = best.name
                     /\ \A k \in DOMAIN recognized_students \ {best.student_id} :
                            recognized_students'[k] = recognized_students[k]
            ELSE /\ resp'.ret = Unknown
                 /\ recognized_students' = recognized_students]_vars

\* C2 witness: with two students cached, the second one, not the first
\* above the threshold, was accepted
C2_Witness ==
    /\ resp.op = "recognize_face"
    /\ resp.arg.kind = "embedding"
    /\ Len(students_cache) = 2
    /\ AboveThreshold(students_cache, resp.arg.embedding) = {1, 2}
    /\ DOMAIN recognized_students = {students_cache[2].student_id}

(* ------------------------------ C6 ------------------------------------ *)

\* the stored students that have a non-empty embedding, as cache entries
StoredWithEmbedding(db) ==
    {[id |-> d.id, name |-> d.name, student_id |-> d.student_id,
      embedding |-> d.embedding] : d \in {x \in db : x.embedding # <<>>}}

CacheSet(cache) == {cache[i] : i \in 1..Len(cache)}

\* C6: a call of _update_students_cache earlier than cache_lifetime after
\* last_cache_update changes neither students_cache nor last_cache_update;
\* after a successful reload the cache holds exactly the stored students
\* with a non-empty embedding and last_cache_update is the time of the call.
C6_RefreshAfterLifetime ==
    [][resp'.op = "update_students_cache" =>
        /\ now - last_cache_update < cache_lifetime =>
              /\ students_cache' = students_cache
              /\ last_cache_update' = last_cache_update
        /\ (now - last_cache_update >= cache_lifetime /\ ~resp'.raised) =>
              /\ CacheSet(students_cache') = StoredWithEmbedding(students)
              /\ Len(students_cache') = Cardinality(StoredWithEmbedding(students))
              /\ last_cache_update' = now]_vars

\* C6 witness: a reload later than the first one, which loaded a student
\* and skipped the one stored without an embedding
C6_Witness ==
    /\ resp.op = "update_students_cache"
    /\ ~resp.raised
    /\ last_cache_update = now
    /\ now > StartTime
    /\ Len(students_cache) = 1
    /\ Cardinality(students) = 2

(* ------------------------------ C7 ------------------------------------ *)

\* the cache is fresh: the next refresh would return at line 82
Fresh(lcu, t) == t - lcu < cache_lifetime

\* C7: a successful register_student or delete_student sets
\* last_cache_update to 0; the next _update_students_cache call then reloads
\* whatever the time; and once a reload has succeeded, _recognize_face
\* matches no student that is not stored, and does match a face whose
\* embedding is that of a stored student.
C7_InvalidationReachesMatching ==
    [][/\ (resp'.op = "register_student" /\ resp'.ret = TRUE) =>
              last_cache_update' = 0
       /\ (resp'.op = "delete_student" /\ resp'.status = 200) =>
              last_cache_update' = 0
       /\ (resp'.op = "update_students_cache" /\ last_cache_update = 0
              /\ ~resp'.raised) =>
              /\ last_cache_update' = now
              /\ CacheSet(students_cache') = StoredWithEmbedding(students)
       /\ (resp'.op = "recognize_face" /\ resp'.arg.kind = "embedding"
              /\ Fresh(last_cache_update', now)) =>
              /\ \A k \in DOMAIN recognized_students' \ DOMAIN recognized_students :
                    \E d \in students : d.student_id = k /\ d.embedding # <<>>
              /\ \A d \in students :
                    (d.embedding = resp'.arg.embedding /\ norm(d.embedding) # 0)
                        => resp'.ret # Unknown]_vars

\* C7 witness: a student who was recognised and then deleted is not
\* matched any more once the cache was reloaded
C7_Witness ==
    /\ resp.op = "recognize_face"
    /\ resp.arg.kind = "embedding"
    /\ norm(resp.arg.embedding) # 0
    /\ resp.ret = Unknown
    /\ Fresh(last_cache_update, now)
    /\ \E k \in DOMAIN recognized_students : ~doc_exists(students, k)

(* ------------------------------ C3 ------------------------------------ *)

\* the attendance documents of student id in the collection
RecordsOf(att, id) ==
    LET docs == {r \in BagToSet(att) : r.student_id = id}
    IN  BagCardinality([r \in docs |-> CopiesIn(r, att)])

\* C3: mark_attendance(student_id, ...) returns True exactly when it wrote
\* one new attendance record of that student and added the id to
\* attendance_marked; it returns False and writes nothing when the id is
\* already in attendance_marked or no student document of that id exists;
\* and between two reset_session calls at most one attendance record is
\* written per student id.
C3_MarkedOncePerSession ==
    [][/\ resp'.op = "mark_attendance" =>
            LET id == resp'.arg
                wrote_one ==
                    /\ BagCardinality(attendance') = BagCardinality(attendance) + 1
                    /\ RecordsOf(attendance', id) = RecordsOf(attendance, id) + 1
                added ==
                    /\ id \notin attendance_marked
                    /\ attendance_marked' = attendance_marked \cup {id}
            IN  /\ resp'.ret = TRUE <=> (wrote_one /\ added)
                /\ resp'.ret = FALSE =>
                      /\ attendance' = attendance
                      /\ attendance_marked' = attendance_marked
                /\ (id \in attendance_marked \/ ~doc_exists(students, id)) =>
                      resp'.ret = FALSE
       /\ \A k \in DOMAIN session_records' : session_records'[k] <= 1]_vars

\* C3 witness: a student is marked a second time, in a later session, and
\* has two attendance records, one of each session
C3_Witness ==
    /\ resp.op = "mark_attendance"
    /\ resp.ret = TRUE
    /\ RecordsOf(attendance, resp.arg) = 2
    /\ session_records[resp.arg] = 1

(* ------------------------------ C4 ------------------------------------ *)

\* C4: when the database call fails inside mark_attendance,
\* register_student or _update_students_cache, the call still returns
\* (False for the first two); mark_attendance then leaves attendance_marked
\* and the attendance collection as they were, register_student leaves the
\* students and last_cache_update as they were, and _update_students_cache
\* leaves last_cache_update as it was.
C4_FailureIsCaught ==
    [][/\ (resp'.op = "mark_attendance" /\ resp'.raised) =>
              /\ resp'.ret = FALSE
              /\ attendance_marked' = attendance_marked
              /\ attendance' = attendance
              /\ session_records' = session_records
       /\ (resp'.op = "register_student" /\ resp'.raised) =>
              /\ resp'.ret = FALSE
              /\ students' = students
              /\ last_cache_update' = last_cache_update
       /\ (resp'.op = "update_students_cache" /\ resp'.raised) =>
              last_cache_update' = last_cache_update]_vars

\* C4 witness: the write of the attendance record failed for a stored
\* student who was not marked, while another student was
C4_Witness ==
    /\ resp.op = "mark_attendance"
    /\ resp.raised
    /\ doc_exists(students, resp.arg)
    /\ attendance_marked # {}
    /\ resp.arg \notin attendance_marked

(* ------------------------------ C5 ------------------------------------ *)

\* at most one document per id
UniqueIds(coll) == \A a \in coll, b \in coll : a.id = b.id => a = b

\* the documents of the collection with another id
Others(coll, id) == {d \in coll : d.id # id}

\* C5: the students collection holds at most one record per student id and
\* the courses collection at most one per course code, whatever was
\* registered, added and deleted; a register_student the database accepts
\* returns True and an accepted add_course answers 200 also when the id or
\* code is stored already, and the stored record is then the new one, the
\* other records being left alone.
C5_OneRecordPerKey ==
    [][/\ UniqueIds(students') /\ UniqueIds(courses')
       /\ \A d \in students' : d.id = d.student_id
       /\ \A d \in courses' : d.id = d.course_code
       /\ resp'.op = "register_student" =>
              /\ resp'.ret = ~resp'.raised
              /\ resp'.ret =>
                    /\ \E d \in students' :
                          /\ d.student_id = resp'.arg.student_id
                          /\ d.name = resp'.arg.name
                          /\ d.embedding = resp'.arg.embedding
                    /\ Others(students', resp'.arg.student_id)
                          = Others(students, resp'.arg.student_id)
       /\ (resp'.op = "add_course" /\ resp'.status = 200) =>
              /\ \E d \in courses' :
                    /\ d.course_code = strip(resp'.arg.course_code)
                    /\ d.password = strip(resp'.arg.password)
              /\ Others(courses', strip(resp'.arg.course_code))
                    = Others(courses, strip(resp'.arg.course_code))]_vars

\* C5 witness: a student id that was registered and cached under one name
\* is registered again under another, and a course code is stored once
\* after it was added
C5_Witness ==
    /\ resp.op = "register_student"
    /\ resp.ret = TRUE
    /\ \E i \in 1..Len(students_cache) :
          /\ students_cache[i].student_id = resp.arg.student_id
          /\ students_cache[i].name # resp.arg.name
    /\ Cardinality({d \in students : d.id = resp.arg.student_id}) = 1
    /\ Cardinality(courses) = 1

(* ------------------------------ C8 ------------------------------------ *)

AdminOps ==
    {"admin_dashboard", "get_all_students", "delete_student",
     "get_session_count", "add_course", "get_all_courses", "delete_course"}

\* C8: an admin operation runs its body only when the session's is_admin
\* flag is true, and otherwise redirects to the admin login leaving the
\* database, the engine and the session as they were; the flag becomes true
\* only by an admin_auth whose password equals the admin password; a wrong
\* password is answered 401 and leaves the session unchanged; admin_logout
\* leaves the flag false.
C8_AdminOnly ==
    [][/\ resp'.op \in AdminOps =>
              /\ resp'.body = is_admin(session)
              /\ ~is_admin(session) =>
                    /\ resp'.status = 302
                    /\ resp'.location = "admin_login"
                    /\ resp'.db = FALSE
                    /\ UNCHANGED <<camera_engine, engine_vars, db_vars, session>>
       /\ (is_admin(session') /\ ~is_admin(session)) =>
              /\ resp'.op = "admin_auth"
              /\ resp'.status = 200
              /\ resp'.arg = ADMIN_PASSWORD
       /\ (resp'.op = "admin_auth" /\ resp'.arg # ADMIN_PASSWORD) =>
              /\ resp'.status = 401
              /\ session' = session
       /\ resp'.op = "admin_logout" => ~is_admin(session')]_vars

\* C8 witness: after the admin added a course and logged out,
\* delete_course is answered by the redirect and the course is still stored
C8_Witness ==
    /\ resp.op = "delete_course"
    /\ resp.status = 302
    /\ ~is_admin(session)
    /\ courses # {}

(* ------------------------------ C9 ------------------------------------ *)

SessionOps == {"course_stats", "start_attendance_session", "attendance"}

\* this step put course_code into the session
CourseEntered == has_course(session') /\ ~has_course(session)

\* the routes behind require_session and /api/mark_attendance without a
\* course in the session, and a doctor_auth that fails
C9_Gate ==
    /\ resp'.op \in SessionOps =>
          /\ resp'.body = has_course(session)
          /\ ~has_course(session) =>
                /\ resp'.status = 302
                /\ resp'.location = "doctor_login"
                /\ UNCHANGED <<camera_engine, engine_vars, db_vars, session,
                               session_records>>
    /\ (resp'.op = "api_mark_attendance" /\ ~has_course(session)) =>
          /\ resp'.status = 400
          /\ UNCHANGED <<camera_engine, engine_vars, db_vars, session,
                         session_records>>
    /\ (resp'.op = "doctor_auth" /\ resp'.status # 200) =>
          /\ resp'.status \in {400, 404, 401, 500}
          /\ session' = session

\* C9, as the code has it: course_stats, start_attendance_session and
\* attendance run their body only with course_code in the session, and
\* /api/mark_attendance answers 400 and changes nothing without it;
\* course_code enters the session only by a doctor_auth for a stored course
\* whose password equals the supplied password once the supplied code and
\* password are stripped of surrounding whitespace; a failed doctor_auth
\* (400, 404, 401, 500) leaves the session unchanged.
C9_CourseSessionGate ==
    [][/\ C9_Gate
       /\ CourseEntered =>
              /\ resp'.op = "doctor_auth"
              /\ resp'.status = 200
              /\ doc_exists(courses, session'["course_code"])
              /\ session'["course_code"] = strip(resp'.arg.course_code)
              /\ doc_get(courses, session'["course_code"]).password
                    = strip(resp'.arg.password)]_vars

\* C9 as the claim states it: the stored password equals the supplied one
C9_StoredPasswordIsSupplied ==
    [][/\ C9_Gate
       /\ CourseEntered =>
              /\ resp'.op = "doctor_auth"
              /\ resp'.status = 200
              /\ doc_exists(courses, session'["course_code"])
              /\ doc_get(courses, session'["course_code"]).password
                    = resp'.arg.password]_vars

\* C9 witness: a doctor_auth whose supplied password carries surrounding
\* whitespace was answered 200 and put the course into the session
C9_Witness ==
    /\ resp.op = "doctor_auth"
    /\ resp.status = 200
    /\ resp.arg.password # strip(resp.arg.password)
    /\ has_course(session)
    /\ doc_get(courses, session["course_code"]).password
          = strip(resp.arg.password)

(* ------------------------------ C1 ------------------------------------ *)

\* C1: the camera is guarded: a thread that passed the running/None check
\* of get_frame or capture_face and is about to call camera.read() never
\* finds the camera set to None by another thread's stop_camera.
C1_NoReadAfterStop ==
    \A t \in Threads : At(t, "read") => camera # "None"

(* ------------------------------ C10 ----------------------------------- *)

\* a step of the generator of video_feed that respects the claim, but for
\* the generator ending by an exception
C10_Parts ==
    /\ (pc'["video"].at = "done" /\ pc["video"].at # "done") =>
          /\ camera_engine' = "None"
          /\ parts' = [blank |-> 1, frame |-> 0]
    /\ parts'.blank # parts.blank => pc'["video"].at = "done"
    /\ parts'.frame # parts.frame =>
          /\ resp'.op = "get_frame"
          /\ resp'.ret \in {"jpeg", "cached"}
          /\ parts'.frame = parts.frame + 1
    /\ (resp'.op = "get_frame" /\ resp'.ret = "None") =>
          /\ parts' = parts
          /\ pc'["video"].at = "loop"
    /\ (resp'.op = "get_frame" /\ resp'.ret \in {"jpeg", "cached"}) =>
          /\ parts'.frame = parts.frame + 1
          /\ pc'["video"].at = "loop"

\* C10: the generator of video_feed ends only when no engine could be
\* initialised, after exactly one blank part and no frame part; with an
\* engine it emits no part when get_frame returns None and asks again, one
\* part per frame get_frame returns, and never ends, whatever stop_camera
\* does.
C10_GeneratorKeepsAsking ==
    [][C10_Parts /\ pc'["video"].at # "raised"]_vars

\* what of C10 the code does keep: all of it but for the exception
C10_ButForTheException == [][C10_Parts]_vars

(* ------------------------------ C11 ----------------------------------- *)

\* the attendance documents of student id for the course
RecordsOfCourse(att, id, course_code) ==
    LET docs == {r \in BagToSet(att) :
                    r.student_id = id /\ r.course_code = course_code}
    IN  BagCardinality([r \in docs |-> CopiesIn(r, att)])

\* this step is a POST /end_session with a course in the session, an
\* engine, and no database call that raised
Finalized ==
    /\ resp'.op = "end_session"
    /\ resp'.method = "POST"
    /\ ~resp'.raised
    /\ has_course(session)
    /\ camera_engine' # "None"

\* C11, as the code has it: a POST /end_session with a course in the
\* session and the database available leaves no recognised student whose
\* document exists unrecorded: a student not yet in attendance_marked gets
\* one attendance record for the course of the web session, a student
\* already in attendance_marked has the record written when it was marked,
\* since the last reset, and gets no other; recognized_students and
\* attendance_marked are cleared afterwards.
C11_EndSessionFinalizes ==
    [][Finalized =>
        /\ \A id \in DOMAIN recognized_students :
              doc_exists(students, id) =>
                 IF id \in attendance_marked
                 THEN /\ id \in DOMAIN session_records
                      /\ session_records[id] = 1
                      /\ RecordsOf(attendance', id) = RecordsOf(attendance, id)
                 ELSE /\ RecordsOfCourse(attendance', id, session["course_code"])
                            = RecordsOfCourse(attendance, id,
                                              session["course_code"]) + 1
                      /\ RecordsOf(attendance', id)
                            = RecordsOf(attendance, id) + 1
        /\ recognized_students' = EmptyDict
        /\ attendance_marked' = {}]_vars

\* C11 as the claim states it: every recognised student whose document
\* exists has an attendance record for the course of the web session
C11_RecordForSessionCourse ==
    [][Finalized =>
        \A id \in DOMAIN recognized_students :
            doc_exists(students, id) =>
                RecordsOfCourse(attendance', id, session["course_code"]) >= 1]_vars

\* C11 witness: after a POST /end_session that found the database
\* available, the one attendance record is of the course of the web
\* session and the recognised students are cleared
C11_Witness ==
    /\ resp.op = "end_session"
    /\ resp.method = "POST"
    /\ ~resp.raised
    /\ has_course(session)
    /\ camera_engine # "None"
    /\ recognized_students = EmptyDict
    /\ BagCardinality(attendance) = 1
    /\ \A r \in BagToSet(attendance) : r.course_code = session["course_code"]

\* ---------------------------------------------------------------------
\* C12  end_session, by GET or by POST, removes session_start and
\* lecture_duration from the web session and leaves every other key of it
\* (course_code, the other course fields, is_admin) as it was; when the
\* handler has an engine, afterwards is_running is false, there is no
\* camera handle and recognized_students and attendance_marked are empty;
\* the answer redirects to the admin dashboard if is_admin is set, else to
\* course_stats if course_code is present, else to the gateway.
SessionKeys == {"session_start", "lecture_duration"}

C12_EndSessionEffect ==
    [][resp'.op = "end_session" =>
        /\ DOMAIN session' = DOMAIN session \ SessionKeys
        /\ \A k \in DOMAIN session' : session'[k] = session[k]
        /\ camera_engine' # "None" =>
              /\ is_running' = FALSE
              /\ camera' = "None"
              /\ recognized_students' = EmptyDict
              /\ attendance_marked' = {}
        /\ resp'.status = 302
        /\ resp'.location =
              IF "is_admin" \in DOMAIN session /\ session["is_admin"] = TRUE
              THEN "admin_dashboard"
              ELSE IF "course_code" \in DOMAIN session THEN "course_stats"
              ELSE "index"]_vars

\* C12 witness: a doctor who is not admin ended the session of a course:
\* the two keys are gone, the course is kept, the engine is stopped and
\* the answer leads to course_stats
C12_Witness ==
    /\ resp.op = "end_session"
    /\ resp.location = "course_stats"
    /\ "course_code" \in DOMAIN session
    /\ SessionKeys \cap DOMAIN session = {}
    /\ camera_engine # "None"
    /\ ~is_running /\ camera = "None"
    /\ recognized_students = EmptyDict /\ attendance_marked = {}
    /\ BagCardinality(attendance) > 0

\* ---------------------------------------------------------------------
\* C17  After the /attendance handler has completed with an engine,
\* recognized_students and attendance_marked are empty, the mode is
\* "attendance" and is_running is true, whatever the state of the engine
\* was before (running or stopped, in registration mode, with students
\* recognised and marked).
C17_AttendanceStartsAfresh ==
    [][(/\ resp'.op = "attendance"
        /\ resp'.status = 200
        /\ camera_engine' # "None")
        => /\ recognized_students' = EmptyDict
           /\ attendance_marked' = {}
           /\ mode' = "attendance"
           /\ is_running' = TRUE]_vars

\* C17 witness: the attendance page was opened with an engine after a
\* student had been marked
C17_Witness ==
    /\ resp.op = "attendance"
    /\ resp.status = 200
    /\ camera_engine # "None"
    /\ BagCardinality(attendance) > 0
    /\ recognized_students = EmptyDict /\ attendance_marked = {}
    /\ mode = "attendance" /\ is_running

\* ---------------------------------------------------------------------
\* C13  get_recognized_students returns only the new students: a student
\* id is in the answer only if it is in recognized_students and not yet
\* in attendance_marked.
\* (a state predicate: the route leaves the engine as it found it, so the
\* state after the answer has the collections the answer was built from)
C13_OnlyNewStudents ==
    resp.op = "get_recognized_students" =>
        \A e \in resp.students :
            /\ e.student_id \in DOMAIN recognized_students
            /\ e.student_id \notin attendance_marked

\* what the route does return: every recognised student, the marked ones
\* with is_marked set
C13_EveryRecognizedStudent ==
    [][resp'.op = "get_recognized_students" /\ camera_engine' # "None" =>
        /\ {e.student_id : e \in resp'.students} = DOMAIN recognized_students
        /\ \A e \in resp'.students :
              e.is_marked = (e.student_id \in attendance_marked)]_vars

\* ---------------------------------------------------------------------
\* C14  After any start_attendance_session request that reaches the
\* handler, lecture_duration in the session is an integer from 1 to 300:
\* the requested duration when it converts to an integer in 1..300, and 90
\* when it is missing, does not convert, is below 1 or above 300; and
\* session_start is set by every such request.
DurationSet(s, requested) ==
    /\ "lecture_duration" \in DOMAIN s
    /\ s["lecture_duration"] \in 1..300
    /\ s["lecture_duration"] =
          IF /\ requested.type # "absent"
             /\ to_int(requested).ok
             /\ to_int(requested).v \in 1..300
          THEN to_int(requested).v
          ELSE 90

\* (a state predicate: resp holds the request just answered, and the
\* session is the one the handler left)
C14_DurationInRange ==
    (resp.op = "start_attendance_session" /\ resp.body) =>
        /\ DurationSet(session, resp.arg)
        /\ "session_start" \in DOMAIN session
        /\ session["session_start"] = now

\* the same for every request whose conversion does not overflow
C14_ButForOverflow ==
    (/\ resp.op = "start_attendance_session" /\ resp.body
     /\ resp.arg.type # "inf") =>
        /\ resp.status = 200
        /\ DurationSet(session, resp.arg)
        /\ "session_start" \in DOMAIN session
        /\ session["session_start"] = now

\* ---------------------------------------------------------------------
\* C15  init_camera yields a singleton over any interleaving of concurrent
\* request threads: at most one CameraEngine is ever constructed, and every
\* request that obtains an engine obtains the same instance.  (When the
\* construction fails the call returns None and leaves the global unset,
\* so that a later call tries again: C15_FailureLeavesUnset.)
Constructed == {EngineOf[c] : c \in {x \in Callers : pc[x].constructed}}

Obtained == UNION {pc[c].obtained : c \in Callers} \ {"None"}

C15_Singleton ==
    /\ Cardinality(Constructed) <= 1
    /\ Cardinality(Obtained) <= 1

\* the part of C15 on a failed construction
C15_FailureLeavesUnset ==
    [][\A c \in Callers :
         (pc[c].at = "construct" /\ pc'[c].at = "idle") =>
            /\ "None" \in pc'[c].obtained
            /\ camera_engine' = camera_engine]_vars

\* ---------------------------------------------------------------------
\* C16  add_course stores a course only when all eight fields are
\* non-empty and total_lectures and class_capacity both convert to
\* integers greater than zero; every rejected request leaves the courses
\* unchanged; every course created has total_lectures > 0 and
\* class_capacity > 0.
NonEmpty(value) ==
    /\ value.type \notin {"absent", "null"}
    /\ value.type = "str" => value.s # <<>>

Positive(value) == to_int(value).ok /\ to_int(value).v > 0

Acceptable(data) ==
    /\ \A k \in TextFields : data[k] # <<>>
    /\ NonEmpty(data.total_lectures) /\ NonEmpty(data.class_capacity)
    /\ Positive(data.total_lectures) /\ Positive(data.class_capacity)

C16_OnlyValidCoursesStored ==
    [][resp'.op = "add_course" =>
        /\ (resp'.status = 200 \/ courses' # courses) =>
              /\ resp'.status = 200
              /\ Acceptable(resp'.arg)
              /\ \E c \in courses' :
                    /\ c.id = strip(resp'.arg.course_code)
                    /\ c.total_lectures = to_int(resp'.arg.total_lectures).v
                    /\ c.class_capacity = to_int(resp'.arg.class_capacity).v
        /\ resp'.status # 200 => courses' = courses
        /\ \A c \in courses' :
              c.total_lectures > 0 /\ c.class_capacity > 0]_vars

\* C16 witness: courses were stored, one of them from a count given as a
\* string, and the last request, with a count of zero, was rejected and
\* left them
C16_Witness ==
    /\ resp.op = "add_course"
    /\ resp.status = 400
    /\ resp.arg.total_lectures = JStr(<<"0">>)
    /\ \E c \in courses : c.id = <<"x">> /\ c.total_lectures = 2
                              /\ c.class_capacity = 3
    /\ \E c \in courses : c.id = <<"y">>

C19_FailedRefreshKeepsCache ==
    [][(/\ resp'.op = "update_students_cache" /\ resp'.raised
        /\ students_cache # <<>> /\ last_cache_update > 0)
        => students_cache' = students_cache]_vars

\* what does hold: a refresh that fails before line 87, in the call of
\* stream(), keeps the cache, and one that fails later leaves only the
\* entries appended before the failure, none of them from the old cache
C19_FailedRefreshLeavesPrefix ==
    [][(resp'.op = "update_students_cache" /\ resp'.raised)
        => \/ students_cache' = students_cache
           \/ \E n \in 0..Len(stream(students)) :
                 students_cache' = cache_entries(SubSeq(stream(students), 1, n))]_vars

=============================================================================
